---- MODULE Spec2Model ----
(***************************************************************************)
(* A model of the CashMate OCR/PDF microservice                            *)
(* (python-microservice/main.py): the amount and date normalizers, the     *)
(* receipt field recognizer, the table column mapper and transaction       *)
(* reconstructor, the summary aggregator, and the three HTTP handlers      *)
(* (/ocr/receipt, /ocr/batch, /parse-pdf).                                 *)
(*                                                                         *)
(* Strings are sequences of one-character strings.  Decimal values are     *)
(* records [m, e] standing for m / 10^e, kept normalised (no trailing      *)
(* zero in the fraction), so equality of records is equality of values.    *)
(* An Optional[...] is a record [some, val].                               *)
(***************************************************************************)
EXTENDS Integers, Sequences, FiniteSets, TLC

VARIABLES
    pc,            \* position of the request being served
    amount_str,    \* clean_amount: its argument
    amount,        \* clean_amount: its return value
    amt_value,     \* the decimal value a rendering is made from (None: a raw string)
    amt_style,     \* how that value is rendered
    date_value,    \* the calendar date a rendering is made from (None: a raw string)
    date_fmt,      \* the index in date_formats of the format it is rendered in
    date_str,      \* PDFParser.parse_date: its argument
    parsed_date,   \* PDFParser.parse_date: its return value
    pdf,           \* /parse-pdf: what the PDF collaborators do on the uploaded document
    text,          \* parse_pdf: the text extract_text_pypdf2 returned
    all_raw_tables,\* parse_pdf: the tables handed to process_table_data
    table_transactions,  \* process_table_data: its return value
    request,       \* /ocr/receipt: the uploaded file and what text extraction does on it
    files,         \* /ocr/batch: the uploaded files
    results,       \* /ocr/batch: the list results
    next_file,     \* /ocr/batch: the index in files of the file the loop takes next
    fields,        \* calculate_confidence: its arguments [amount, date, vendor]
    confidence_score, \* calculate_confidence: its return value
    response       \* the HTTP response of the request: [status, body]

amountVars == <<amount_str, amount, amt_value, amt_style>>
dateVars == <<date_value, date_fmt, date_str, parsed_date>>
pdfVars == <<pdf, text, all_raw_tables, table_transactions>>
receiptVars == <<request, files, results, next_file>>
scoreVars == <<fields, confidence_score>>
vars == <<pc, amountVars, dateVars, pdfVars, receiptVars, scoreVars, response>>

(***************************************************************************)
(* Characters and strings                                                  *)
(***************************************************************************)
Chars(s) == [i \in 1..Len(s) |-> SubSeq(s, i, i)]

DigitChars == Chars("0123456789")
UpperChars == Chars("ABCDEFGHIJKLMNOPQRSTUVWXYZ")
LowerChars == Chars("abcdefghijklmnopqrstuvwxyz")

Range(f) == {f[i] : i \in DOMAIN f}

IsDigit(c) == c \in Range(DigitChars)
IsSpace(c) == c \in {" ", "\n", "\t", "\r"}
IsWordChar(c) == IsDigit(c) \/ c \in Range(UpperChars) \/ c \in Range(LowerChars) \/ c = "_"

DigitVal(c) == (CHOOSE i \in 1..10 : DigitChars[i] = c) - 1

\* the decimal digits of a natural number
RECURSIVE IntDigits(_)
IntDigits(n) ==
    IF n < 10 THEN <<DigitChars[n + 1]>>
    ELSE IntDigits(n \div 10) \o <<DigitChars[(n % 10) + 1]>>

\* str.lower() on one character
LowerChar(c) ==
    IF c \in Range(UpperChars)
    THEN LowerChars[CHOOSE i \in 1..26 : UpperChars[i] = c]
    ELSE c

\* str.lower()
Lower(s) == [i \in 1..Len(s) |-> LowerChar(s[i])]

\* str.strip()
RECURSIVE LStrip(_)
LStrip(s) == IF s # <<>> /\ IsSpace(Head(s)) THEN LStrip(Tail(s)) ELSE s

RECURSIVE RStrip(_)
RStrip(s) ==
    IF s # <<>> /\ IsSpace(s[Len(s)]) THEN RStrip(SubSeq(s, 1, Len(s) - 1)) ELSE s

Strip(s) == RStrip(LStrip(s))

\* re.sub(<one character class>, '', s): the characters of s that are not in the class
RECURSIVE RemoveChars(_, _)
RemoveChars(s, class) ==
    IF s = <<>> THEN <<>>
    ELSE IF Head(s) \in class THEN RemoveChars(Tail(s), class)
         ELSE <<Head(s)>> \o RemoveChars(Tail(s), class)

\* sub in s (Python's substring test)
Contains(s, sub) ==
    \E i \in 0..(Len(s) - Len(sub)) : SubSeq(s, i + 1, i + Len(sub)) = sub

ContainsAny(s, subs) == \E sub \in subs : Contains(s, sub)

StartsWith(s, p) == Len(s) >= Len(p) /\ SubSeq(s, 1, Len(p)) = p
EndsWith(s, p) == Len(s) >= Len(p) /\ SubSeq(s, Len(s) - Len(p) + 1, Len(s)) = p

(***************************************************************************)
(* Decimal values and Optional                                             *)
(***************************************************************************)
RECURSIVE Pow10(_)
Pow10(n) == IF n = 0 THEN 1 ELSE 10 * Pow10(n - 1)

\* the value m / 10^e, normalised
RECURSIVE Dec(_, _)
Dec(m, e) == IF e > 0 /\ m % 10 = 0 THEN Dec(m \div 10, e - 1) ELSE [m |-> m, e |-> e]

DecZero == Dec(0, 0)
DecNeg(a) == [m |-> 0 - a.m, e |-> a.e]
DecAbs(a) == IF a.m < 0 THEN DecNeg(a) ELSE a
DecMax(x, y) == IF x >= y THEN x ELSE y
DecAdd(a, b) ==
    LET e == DecMax(a.e, b.e)
    IN  Dec(a.m * Pow10(e - a.e) + b.m * Pow10(e - b.e), e)
DecLeq(a, b) ==
    LET e == DecMax(a.e, b.e)
    IN  a.m * Pow10(e - a.e) <= b.m * Pow10(e - b.e)

None == [some |-> FALSE]
Some(v) == [some |-> TRUE, val |-> v]

(***************************************************************************)
(* Amount Normalizer: PDFParser.clean_amount                               *)
(***************************************************************************)
CurrencyAndComma == {"₹", "$", "€", "£", "¥", ","}

\* the digits of s read as a natural number ("" reads as 0)
RECURSIVE DigitsValue(_)
DigitsValue(s) ==
    IF s = <<>> THEN 0 ELSE 10 * DigitsValue(SubSeq(s, 1, Len(s) - 1)) + DigitVal(s[Len(s)])

\* Decimal(cleaned) for a string of digits and points: a value, or
\* InvalidOperation (None) unless there is a digit and at most one point
DecimalOf(cleaned) ==
    LET dots == {i \in 1..Len(cleaned) : cleaned[i] = "."}
    IN  IF Cardinality(dots) > 1 \/ Cardinality(dots) = Len(cleaned) THEN None
        ELSE IF dots = {} THEN Some(Dec(DigitsValue(cleaned), 0))
        ELSE LET d == CHOOSE i \in dots : TRUE
                 frac == SubSeq(cleaned, d + 1, Len(cleaned))
             IN  Some(Dec(DigitsValue(SubSeq(cleaned, 1, d - 1) \o frac), Len(frac)))

\* parentheses are not taken as a sign
EnclosedInParentheses_never(cleaned) == FALSE

\* cleaned.startswith('(') and cleaned.endswith(')')
EnclosedInParentheses(cleaned) == StartsWith(cleaned, <<"(">>) /\ EndsWith(cleaned, <<")">>)

clean_amount(s) ==
    IF Strip(s) = <<>> THEN None
    ELSE
      LET c0 == RemoveChars(Strip(s), CurrencyAndComma)
          paren == EnclosedInParentheses(c0)
          c1 == IF paren THEN SubSeq(c0, 2, Len(c0) - 1) ELSE c0
          minus == StartsWith(c1, <<"-">>)
          c2 == IF minus THEN Tail(c1) ELSE c1
          is_negative == paren \/ minus
          cleaned == RemoveChars(c2, {c2[i] : i \in DOMAIN c2} \ (Range(DigitChars) \cup {"."}))
          dec == DecimalOf(cleaned)
      IN  IF cleaned = <<>> THEN None
          ELSE IF ~dec.some THEN None
          ELSE IF is_negative THEN Some(DecNeg(dec.val)) ELSE dec

(***************************************************************************)
(* datetime.strptime and strftime for the directives the service uses      *)
(***************************************************************************)
MonthAbbr ==
    <<Chars("jan"), Chars("feb"), Chars("mar"), Chars("apr"), Chars("may"), Chars("jun"),
      Chars("jul"), Chars("aug"), Chars("sep"), Chars("oct"), Chars("nov"), Chars("dec")>>
MonthFull ==
    <<Chars("january"), Chars("february"), Chars("march"), Chars("april"), Chars("may"),
      Chars("june"), Chars("july"), Chars("august"), Chars("september"), Chars("october"),
      Chars("november"), Chars("december")>>
\* the order of the alternatives of %B in the regex strptime builds (longest first)
MonthFullOrder == <<9, 2, 11, 12, 1, 10, 8, 3, 4, 6, 7, 5>>

IsLeap(y) == (y % 4 = 0 /\ y % 100 # 0) \/ y % 400 = 0
DaysInMonth(y, m) ==
    IF m = 2 THEN (IF IsLeap(y) THEN 29 ELSE 28)
    ELSE IF m \in {4, 6, 9, 11} THEN 30 ELSE 31

DigitAt(s, i) == i >= 1 /\ i <= Len(s) /\ IsDigit(s[i])
NumAt(s, i, n) == DigitsValue(SubSeq(s, i, i + n - 1))
AllDigits(s, i, n) == \A k \in i..(i + n - 1) : DigitAt(s, k)

\* s has name (lower case) at position i, compared ignoring case
NameAt(s, i, name) ==
    /\ i + Len(name) - 1 <= Len(s)
    /\ Lower(SubSeq(s, i, i + Len(name) - 1)) = name

\* the alternatives of one directive that match s at position i, in the regex's
\* order of preference: <<[len, val], ...>>
DirectiveAlts(dir, s, i) ==
    IF dir = "d" THEN
        \* 3[0-1]|[1-2]\d|0[1-9]|[1-9]| [1-9]
        (IF AllDigits(s, i, 2) /\ NumAt(s, i, 2) >= 1 /\ NumAt(s, i, 2) <= 31
         THEN <<[len |-> 2, val |-> NumAt(s, i, 2)]>> ELSE <<>>)
        \o (IF DigitAt(s, i) /\ s[i] # "0" THEN <<[len |-> 1, val |-> NumAt(s, i, 1)]>> ELSE <<>>)
        \o (IF i + 1 <= Len(s) /\ s[i] = " " /\ DigitAt(s, i + 1) /\ s[i + 1] # "0"
            THEN <<[len |-> 2, val |-> NumAt(s, i + 1, 1)]>> ELSE <<>>)
    ELSE IF dir = "m" THEN
        \* 1[0-2]|0[1-9]|[1-9]
        (IF AllDigits(s, i, 2) /\ NumAt(s, i, 2) >= 1 /\ NumAt(s, i, 2) <= 12
         THEN <<[len |-> 2, val |-> NumAt(s, i, 2)]>> ELSE <<>>)
        \o (IF DigitAt(s, i) /\ s[i] # "0" THEN <<[len |-> 1, val |-> NumAt(s, i, 1)]>> ELSE <<>>)
    ELSE IF dir = "Y" THEN
        \* \d\d\d\d
        (IF AllDigits(s, i, 4) THEN <<[len |-> 4, val |-> NumAt(s, i, 4)]>> ELSE <<>>)
    ELSE IF dir = "y" THEN
        \* \d\d, 00..68 in 2000..2068 and 69..99 in 1969..1999
        (IF AllDigits(s, i, 2)
         THEN <<[len |-> 2,
                 val |-> IF NumAt(s, i, 2) <= 68 THEN 2000 + NumAt(s, i, 2)
                         ELSE 1900 + NumAt(s, i, 2)]>>
         ELSE <<>>)
    ELSE IF dir = "b" THEN
        SelectSeq([k \in 1..12 |-> [len |-> 3, val |-> k]],
                  LAMBDA a : NameAt(s, i, MonthAbbr[a.val]))
    ELSE \* "B"
        SelectSeq([k \in 1..12 |-> [len |-> Len(MonthFull[MonthFullOrder[k]]),
                                    val |-> MonthFullOrder[k]]],
                  LAMBDA a : NameAt(s, i, MonthFull[a.val]))

\* \s+ at position i: the lengths it may take, longest first
RECURSIVE SpaceRun(_, _)
SpaceRun(s, i) == IF i <= Len(s) /\ IsSpace(s[i]) THEN 1 + SpaceRun(s, i + 1) ELSE 0
SpaceAlts(s, i) ==
    LET n == SpaceRun(s, i) IN [k \in 1..n |-> [len |-> n + 1 - k, val |-> 0]]

FieldOf(dir) ==
    IF dir = "d" THEN "d" ELSE IF dir \in {"m", "b", "B"} THEN "m" ELSE "y"

\* format_regex.match(data_string): the first match in the regex's order of
\* preference, as [ok, end, d, m, y]; end is the position after the match
RECURSIVE StrpMatch(_, _, _, _)
RECURSIVE StrpTry(_, _, _, _, _, _)
StrpMatch(fmt, s, i, acc) ==
    IF fmt = <<>> THEN [acc EXCEPT !.ok = TRUE, !.end = i]
    ELSE IF Head(fmt) = "%" THEN
        StrpTry(DirectiveAlts(fmt[2], s, i), FieldOf(fmt[2]), SubSeq(fmt, 3, Len(fmt)), s, i, acc)
    ELSE IF Head(fmt) = " " THEN
        StrpTry(SpaceAlts(s, i), "sp", Tail(fmt), s, i, acc)
    ELSE IF i <= Len(s) /\ LowerChar(s[i]) = LowerChar(Head(fmt))
         THEN StrpMatch(Tail(fmt), s, i + 1, acc)
         ELSE [acc EXCEPT !.ok = FALSE]
StrpTry(alts, field, rest, s, i, acc) ==
    IF alts = <<>> THEN [acc EXCEPT !.ok = FALSE]
    ELSE LET a == Head(alts)
             acc1 == IF field = "d" THEN [acc EXCEPT !.d = a.val]
                     ELSE IF field = "m" THEN [acc EXCEPT !.m = a.val]
                     ELSE IF field = "y" THEN [acc EXCEPT !.y = a.val]
                     ELSE acc
             r == StrpMatch(rest, s, i + a.len, acc1)
         IN  IF r.ok THEN r ELSE StrpTry(Tail(alts), field, rest, s, i, acc)

\* datetime.strptime(s, fmt): Some([y, m, d]), or None for ValueError (no match,
\* unconverted data, or a day the month does not have)
strptime(s, fmt) ==
    LET r == StrpMatch(fmt, s, 1, [ok |-> FALSE, end |-> 0, d |-> 1, m |-> 1, y |-> 1900])
    IN  IF ~r.ok \/ r.end # Len(s) + 1 THEN None
        ELSE IF r.y < 1 \/ r.d > DaysInMonth(r.y, r.m) THEN None
        ELSE Some([y |-> r.y, m |-> r.m, d |-> r.d])

\* n written with at least w digits
RECURSIVE Pad(_, _)
Pad(n, w) == IF Len(IntDigits(n)) >= w THEN IntDigits(n) ELSE <<"0">> \o Pad(n, w - 1)

Capitalize(s) == <<UpperChars[CHOOSE i \in 1..26 : LowerChars[i] = s[1]]>> \o Tail(s)

\* dt.strftime(fmt)
RECURSIVE strftime(_, _)
strftime(dt, fmt) ==
    IF fmt = <<>> THEN <<>>
    ELSE IF Head(fmt) = "%" THEN
        (IF fmt[2] = "d" THEN Pad(dt.d, 2)
         ELSE IF fmt[2] = "m" THEN Pad(dt.m, 2)
         ELSE IF fmt[2] = "Y" THEN Pad(dt.y, 4)
         ELSE IF fmt[2] = "y" THEN Pad(dt.y % 100, 2)
         ELSE IF fmt[2] = "b" THEN Capitalize(MonthAbbr[dt.m])
         ELSE Capitalize(MonthFull[dt.m]))
        \o strftime(dt, SubSeq(fmt, 3, Len(fmt)))
    ELSE <<Head(fmt)>> \o strftime(dt, Tail(fmt))

IsoFormat == Chars("%Y-%m-%d")

(***************************************************************************)
(* Date Normalizer: PDFParser.parse_date                                   *)
(***************************************************************************)
\* datetime.now().year
CurrentYear == 2026
MinYear == 2000

\* the list with a month-first format tried before the day-first ones
date_formats_monthFirst ==
    <<Chars("%m/%d/%Y"),
      Chars("%d/%m/%Y"), Chars("%d-%m-%Y"), Chars("%d.%m.%Y"),
      Chars("%Y/%m/%d"), Chars("%Y-%m-%d"), Chars("%Y.%m.%d"),
      Chars("%d %b %Y"), Chars("%d %B %Y"), Chars("%d-%b-%Y"), Chars("%d-%B-%Y"),
      Chars("%b %d, %Y"), Chars("%B %d, %Y"),
      Chars("%m/%d/%y"), Chars("%m-%d-%y")>>

date_formats ==
    <<Chars("%d/%m/%Y"), Chars("%d-%m-%Y"), Chars("%d.%m.%Y"),
      Chars("%Y/%m/%d"), Chars("%Y-%m-%d"), Chars("%Y.%m.%d"),
      Chars("%d %b %Y"), Chars("%d %B %Y"), Chars("%d-%b-%Y"), Chars("%d-%B-%Y"),
      Chars("%b %d, %Y"), Chars("%B %d, %Y"),
      Chars("%m/%d/%y"), Chars("%m-%d-%y")>>

\* no window on the year
YearInWindow_anyYear(y) == TRUE

\* "if 2000 <= parsed_date.year <= datetime.now().year + 1"
YearInWindow(y) == MinYear <= y /\ y <= CurrentYear + 1

\* the loop over the formats, from format k on
RECURSIVE TryFormats(_, _, _)
TryFormats(s, formats, k) ==
    IF k > Len(formats) THEN None
    ELSE LET dt == strptime(Strip(s), formats[k])
         IN  IF dt.some /\ YearInWindow(dt.val.y) THEN Some(strftime(dt.val, IsoFormat))
             ELSE TryFormats(s, formats, k + 1)

parse_date(s) == IF s = <<>> THEN None ELSE TryFormats(s, date_formats, 1)

(***************************************************************************)
(* Python's re, for the constructs the patterns of the service use.  A     *)
(* pattern is a tree; ReMatch gives the ways it matches at a position, in  *)
(* the order a backtracking matcher tries them, each as [end, cap]: the    *)
(* position after the match and the span <<from, to>> of group 1.          *)
(***************************************************************************)
ReSet(str) == [t |-> "set", set |-> Range(Chars(str))]
ReLit(str) == [t |-> "lit", s |-> Chars(str)]
ReSeq(xs) == [t |-> "seq", xs |-> xs]
ReAlt(xs) == [t |-> "alt", xs |-> xs]
ReRep(x, min, max) == [t |-> "rep", x |-> x, min |-> min, max |-> max]
ReStar(x) == ReRep(x, 0, -1)
RePlus(x) == ReRep(x, 1, -1)
ReOpt(x) == ReRep(x, 0, 1)
ReGroup(x) == [t |-> "grp", x |-> x]
ReLookahead(x) == [t |-> "look", x |-> x]
ReWordBoundary == [t |-> "wb"]
ReAny == [t |-> "any"]
ReBegin == [t |-> "bol"]
ReEnd == [t |-> "eol"]
ReWords(ws) == ReAlt([i \in 1..Len(ws) |-> ReLit(ws[i])])

ReDigit == [t |-> "set", set |-> Range(DigitChars)]
ReSpace == [t |-> "set", set |-> {" ", "\n", "\t", "\r"}]
ReLowerLetter == [t |-> "set", set |-> Range(LowerChars)]

\* \b at position i of s
WordBoundaryAt(s, i) ==
    (i > 1 /\ i - 1 <= Len(s) /\ IsWordChar(s[i - 1])) # (i <= Len(s) /\ IsWordChar(s[i]))

\* the sequences seqs[lo], ..., seqs[hi] joined in order
RECURSIVE Flatten(_, _, _)
Flatten(seqs, lo, hi) ==
    IF lo > hi THEN <<>>
    ELSE IF lo = hi THEN seqs[lo]
    ELSE LET mid == (lo + hi) \div 2
         IN  Flatten(seqs, lo, mid) \o Flatten(seqs, mid + 1, hi)

\* a pattern that matches exactly one character
ReIsChar(re) == re.t \in {"set", "any"}
ReCharOk(re, c) == IF re.t = "any" THEN c # "\n" ELSE c \in re.set

\* a greedy repetition of a one-character pattern: the longest run first,
\* then each shorter one down to min
ReMatchRun(re, s, i, cap) ==
    LET stops == {k \in i..Len(s) : ~ReCharOk(re.x, s[k])} \cup {Len(s) + 1}
        stop == CHOOSE k \in stops : \A j \in stops : k <= j
        hi == IF re.max # -1 /\ i + re.max < stop THEN i + re.max ELSE stop
        lo == i + re.min
    IN  IF hi < lo THEN <<>>
        ELSE [k \in 1..(hi - lo + 1) |-> [end |-> hi - k + 1, cap |-> cap]]

RECURSIVE ReMatch(_, _, _, _)
RECURSIVE ReMatchSeq(_, _, _, _)
RECURSIVE ReMatchRep(_, _, _, _, _)

\* re matched after each of the matches rs, in order
ReMatchEach(re, s, rs) ==
    Flatten([k \in 1..Len(rs) |-> ReMatch(re, s, rs[k].end, rs[k].cap)], 1, Len(rs))

ReMatchAlt(xs, s, i, cap) ==
    Flatten([k \in 1..Len(xs) |-> ReMatch(xs[k], s, i, cap)], 1, Len(xs))

ReMatch(re, s, i, cap) ==
    CASE re.t = "set" ->
            IF i <= Len(s) /\ s[i] \in re.set THEN <<[end |-> i + 1, cap |-> cap]>> ELSE <<>>
      [] re.t = "any" ->
            IF i <= Len(s) /\ s[i] # "\n" THEN <<[end |-> i + 1, cap |-> cap]>> ELSE <<>>
      [] re.t = "lit" ->
            IF i + Len(re.s) - 1 <= Len(s) /\ SubSeq(s, i, i + Len(re.s) - 1) = re.s
            THEN <<[end |-> i + Len(re.s), cap |-> cap]>> ELSE <<>>
      [] re.t = "seq" -> ReMatchSeq(re.xs, 1, s, <<[end |-> i, cap |-> cap]>>)
      [] re.t = "alt" -> ReMatchAlt(re.xs, s, i, cap)
      [] re.t = "rep" ->
            IF ReIsChar(re.x) THEN ReMatchRun(re, s, i, cap) ELSE ReMatchRep(re, 0, s, i, cap)
      [] re.t = "grp" ->
            LET rs == ReMatch(re.x, s, i, cap)
            IN  [k \in 1..Len(rs) |-> [end |-> rs[k].end, cap |-> <<i, rs[k].end>>]]
      [] re.t = "look" ->
            IF ReMatch(re.x, s, i, cap) # <<>> THEN <<[end |-> i, cap |-> cap]>> ELSE <<>>
      [] re.t = "wb" ->
            IF WordBoundaryAt(s, i) THEN <<[end |-> i, cap |-> cap]>> ELSE <<>>
      [] re.t = "bol" -> IF i = 1 THEN <<[end |-> i, cap |-> cap]>> ELSE <<>>
      [] re.t = "eol" ->
            IF i = Len(s) + 1 \/ (i = Len(s) /\ s[i] = "\n")
            THEN <<[end |-> i, cap |-> cap]>> ELSE <<>>

ReMatchSeq(xs, k, s, rs) ==
    IF k > Len(xs) \/ rs = <<>> THEN rs
    ELSE ReMatchSeq(xs, k + 1, s, ReMatchEach(xs[k], s, rs))

\* a greedy repetition that has matched n times: one more first, then none
ReMatchRep(re, n, s, i, cap) ==
    LET more == IF re.max # -1 /\ n >= re.max THEN <<>>
                ELSE SelectSeq(ReMatch(re.x, s, i, cap), LAMBDA r : r.end > i)
    IN  Flatten([k \in 1..Len(more) |-> ReMatchRep(re, n + 1, s, more[k].end, more[k].cap)],
                1, Len(more))
        \o (IF n >= re.min THEN <<[end |-> i, cap |-> cap]>> ELSE <<>>)

\* the matches of re at each position of s
ReMatchesAt(re, s) == [i \in 1..(Len(s) + 1) |-> ReMatch(re, s, i, <<0, 0>>)]

\* re.search(re, s) from position i on, given the matches at each position:
\* the first match, as [found, start, end, cap]
ReSearchFrom(ms, i) ==
    LET starts == {j \in i..Len(ms) : ms[j] # <<>>}
    IN  IF starts = {} THEN [found |-> FALSE]
        ELSE LET j == CHOOSE j \in starts : \A k \in starts : j <= k
             IN  [found |-> TRUE, start |-> j, end |-> ms[j][1].end, cap |-> ms[j][1].cap]

ReSearch(re, s) == ReSearchFrom(ReMatchesAt(re, s), 1).found

\* re.findall(re, s) for a pattern with one group: the text of group 1 of each
\* match, the matches taken left to right without overlap
RECURSIVE ReFindAllFrom(_, _, _)
ReFindAllFrom(ms, s, i) ==
    LET m == ReSearchFrom(ms, i)
    IN  IF ~m.found THEN <<>>
        ELSE <<SubSeq(s, m.cap[1], m.cap[2] - 1)>>
             \o ReFindAllFrom(ms, s, IF m.end > m.start THEN m.end ELSE m.start + 1)

ReFindAll(re, s) == ReFindAllFrom(ReMatchesAt(re, s), s, 1)

(***************************************************************************)
(* Field Recognizer: ReceiptParser.parse_amount, parse_date, parse_vendor  *)
(* and calculate_confidence                                                *)
(***************************************************************************)
\* \d{1,3}(?:,\d{3})*(?:\.\d{2})?|\d+(?:\.\d{2})?
ReNumber ==
    ReAlt(<<ReSeq(<<ReRep(ReDigit, 1, 3),
                    ReStar(ReSeq(<<ReLit(","), ReRep(ReDigit, 3, 3)>>)),
                    ReOpt(ReSeq(<<ReLit("."), ReRep(ReDigit, 2, 2)>>))>>),
            ReSeq(<<RePlus(ReDigit), ReOpt(ReSeq(<<ReLit("."), ReRep(ReDigit, 2, 2)>>))>>)>>)

ReCurrencyGlyph == [t |-> "set", set |-> {"$", "₹", "€"}]

amount_patterns ==
    <<\* (?:total|amount|sum|subtotal|grand total|bill)[\s:]*[$₹€]?\s*(NUMBER)
      ReSeq(<<ReWords(<<"total", "amount", "sum", "subtotal", "grand total", "bill">>),
              ReStar([t |-> "set", set |-> {" ", "\n", "\t", "\r", ":"}]),
              ReOpt(ReCurrencyGlyph), ReStar(ReSpace), ReGroup(ReNumber)>>),
      \* [$₹€]\s*(NUMBER)
      ReSeq(<<ReCurrencyGlyph, ReStar(ReSpace), ReGroup(ReNumber)>>),
      \* (NUMBER)\s*(?:total|amount|sum|subtotal|grand total)
      ReSeq(<<ReGroup(ReNumber), ReStar(ReSpace),
              ReWords(<<"total", "amount", "sum", "subtotal", "grand total">>)>>),
      \* \b(?:rs\.?|inr|eur)\s*(NUMBER)
      ReSeq(<<ReWordBoundary,
              ReAlt(<<ReSeq(<<ReLit("rs"), ReOpt(ReLit("."))>>), ReLit("inr"), ReLit("eur")>>),
              ReStar(ReSpace), ReGroup(ReNumber)>>),
      \* \b(NUMBER)\b(?=.*(?:total|amount|paid|balance|net))
      ReSeq(<<ReWordBoundary, ReGroup(ReNumber), ReWordBoundary,
              ReLookahead(ReSeq(<<ReStar(ReAny),
                                  ReWords(<<"total", "amount", "paid", "balance", "net">>)>>))>>),
      \* \b(\d+\.\d{2})\b
      ReSeq(<<ReWordBoundary,
              ReGroup(ReSeq(<<RePlus(ReDigit), ReLit("."), ReRep(ReDigit, 2, 2)>>)),
              ReWordBoundary>>),
      \* \b(\d+)\b
      ReSeq(<<ReWordBoundary, ReGroup(RePlus(ReDigit)), ReWordBoundary>>)>>

\* "if 0.01 <= amount <= 100000.00"
AmountPlausible(a) == DecLeq(Dec(1, 2), a) /\ DecLeq(a, Dec(100000, 0))

\* float(match.replace(',', '')) of each match, the plausible ones kept
RECURSIVE PlausibleAmounts(_)
PlausibleAmounts(matches) ==
    IF matches = <<>> THEN <<>>
    ELSE LET a == DecimalOf(RemoveChars(Head(matches), {","}))
         IN  (IF a.some /\ AmountPlausible(a.val) THEN <<a.val>> ELSE <<>>)
             \o PlausibleAmounts(Tail(matches))

\* the list amounts after the loop over the patterns, from pattern k on
RECURSIVE CollectAmounts(_, _)
CollectAmounts(t, k) ==
    IF k > Len(amount_patterns) THEN <<>>
    ELSE PlausibleAmounts(ReFindAll(amount_patterns[k], Lower(t))) \o CollectAmounts(t, k + 1)

\* max(amounts)
MaxAmount(amounts) ==
    amounts[CHOOSE i \in DOMAIN amounts : \A j \in DOMAIN amounts : DecLeq(amounts[j], amounts[i])]

parse_amount(t) ==
    LET amounts == CollectAmounts(t, 1)
    IN  IF amounts # <<>> THEN Some(MaxAmount(amounts)) ELSE None

ReMonth ==
    ReSeq(<<ReWords(<<"jan", "feb", "mar", "apr", "may", "jun",
                      "jul", "aug", "sep", "oct", "nov", "dec">>),
            ReStar(ReLowerLetter)>>)
ReDateSep == [t |-> "set", set |-> {"-", "/", "."}]

receipt_date_patterns ==
    <<\* (\d{1,2}[-/.]\d{1,2}[-/.]\d{2,4})
      ReGroup(ReSeq(<<ReRep(ReDigit, 1, 2), ReDateSep, ReRep(ReDigit, 1, 2), ReDateSep,
                      ReRep(ReDigit, 2, 4)>>)),
      \* (\d{4}[-/.]\d{1,2}[-/.]\d{1,2})
      ReGroup(ReSeq(<<ReRep(ReDigit, 4, 4), ReDateSep, ReRep(ReDigit, 1, 2), ReDateSep,
                      ReRep(ReDigit, 1, 2)>>)),
      \* (\d{1,2}\s+(?:jan|...|dec)[a-z]*\s+\d{2,4})
      ReGroup(ReSeq(<<ReRep(ReDigit, 1, 2), RePlus(ReSpace), ReMonth, RePlus(ReSpace),
                      ReRep(ReDigit, 2, 4)>>)),
      \* ((?:jan|...|dec)[a-z]*\s+\d{1,2},?\s+\d{2,4})
      ReGroup(ReSeq(<<ReMonth, RePlus(ReSpace), ReRep(ReDigit, 1, 2), ReOpt(ReLit(",")),
                      RePlus(ReSpace), ReRep(ReDigit, 2, 4)>>)),
      \* (\d{1,2}-(?:jan|...|dec)[a-z]*-\d{2,4})
      ReGroup(ReSeq(<<ReRep(ReDigit, 1, 2), ReLit("-"), ReMonth, ReLit("-"),
                      ReRep(ReDigit, 2, 4)>>))>>

receipt_date_formats ==
    <<Chars("%d/%m/%Y"), Chars("%d-%m-%Y"), Chars("%d.%m.%Y"),
      Chars("%Y/%m/%d"), Chars("%Y-%m-%d"), Chars("%Y.%m.%d"),
      Chars("%d %b %Y"), Chars("%d %B %Y"),
      Chars("%b %d, %Y"), Chars("%B %d, %Y"),
      Chars("%d-%b-%Y"), Chars("%d-%B-%Y"),
      Chars("%m/%d/%y"), Chars("%m-%d-%y")>>

\* "for fmt in (...)" on one match, from format k on
RECURSIVE TryReceiptFormats(_, _)
TryReceiptFormats(match, k) ==
    IF k > Len(receipt_date_formats) THEN None
    ELSE LET dt == strptime(match, receipt_date_formats[k])
         IN  IF dt.some /\ YearInWindow(dt.val.y) THEN Some(strftime(dt.val, IsoFormat))
             ELSE TryReceiptFormats(match, k + 1)

\* "for match in matches"
RECURSIVE TryDateMatches(_)
TryDateMatches(matches) ==
    IF matches = <<>> THEN None
    ELSE LET d == TryReceiptFormats(Head(matches), 1)
         IN  IF d.some THEN d ELSE TryDateMatches(Tail(matches))

\* "for pattern in patterns", from pattern k on
RECURSIVE TryDatePatterns(_, _)
TryDatePatterns(t, k) ==
    IF k > Len(receipt_date_patterns) THEN None
    ELSE LET d == TryDateMatches(ReFindAll(receipt_date_patterns[k], Lower(t)))
         IN  IF d.some THEN d ELSE TryDatePatterns(t, k + 1)

receipt_parse_date(t) == TryDatePatterns(t, 1)

\* str.split('\n')
RECURSIVE SplitLines(_)
SplitLines(t) ==
    IF \A i \in DOMAIN t : t[i] # "\n" THEN <<t>>
    ELSE LET n == CHOOSE i \in DOMAIN t : t[i] = "\n" /\ \A j \in 1..(i - 1) : t[j] # "\n"
         IN  <<SubSeq(t, 1, n - 1)>> \o SplitLines(SubSeq(t, n + 1, Len(t)))

vendor_keywords ==
    {Chars("store"), Chars("shop"), Chars("mart"), Chars("restaurant"), Chars("cafe"),
     Chars("company"), Chars("ltd"), Chars("inc"), Chars("corp"), Chars("pvt"), Chars("co"),
     Chars("supermarket")}

\* \d{4}
ReFourDigits == ReRep(ReDigit, 4, 4)
\* tel|phone|fax|gstin|vat|invoice|bill|receipt|date|time
ReContactWords ==
    ReWords(<<"tel", "phone", "fax", "gstin", "vat", "invoice", "bill", "receipt", "date", "time">>)
\* ^[A-Z][a-zA-Z\s&.-]{3,}(?:(?:\s(?:ltd|inc|pvt|corp|co))\.?)?$
ReBusinessName ==
    ReSeq(<<ReBegin,
            [t |-> "set", set |-> Range(UpperChars)],
            ReRep([t |-> "set", set |-> Range(UpperChars) \cup Range(LowerChars)
                                          \cup {" ", "\n", "\t", "\r", "&", ".", "-"}], 3, -1),
            ReOpt(ReSeq(<<ReSpace, ReWords(<<"ltd", "inc", "pvt", "corp", "co">>),
                          ReOpt(ReLit("."))>>)),
            ReEnd>>)

\* the condition under which a line is taken as the vendor
IsVendorLine(line) ==
    /\ Len(line) > 5
    /\ ~ReSearch(ReFourDigits, line)
    /\ ~ReSearch(ReContactWords, Lower(line))
    /\ \/ ContainsAny(Lower(line), vendor_keywords)
       \/ ReMatch(ReBusinessName, line, 1, <<0, 0>>) # <<>>

\* "for i, line in enumerate(lines[:8])", from line k on
RECURSIVE ScanVendorLines(_, _)
ScanVendorLines(lines, k) ==
    IF k > Len(lines) \/ k > 8 THEN Chars("Unknown Vendor")
    ELSE LET line == Strip(lines[k])
         IN  IF IsVendorLine(line)
             THEN LET cleaned_vendor == Strip(RemoveChars(line, {"(", ")", "*", "#"}))
                  IN  SubSeq(cleaned_vendor, 1, IF Len(cleaned_vendor) < 100
                                                 THEN Len(cleaned_vendor) ELSE 100)
             ELSE ScanVendorLines(lines, k + 1)

parse_vendor(t) == ScanVendorLines(SplitLines(Strip(t)), 1)

\* the length of the vendor is not looked at
VendorCounts_defaultOnly(vendor) ==
    vendor.some /\ vendor.val # Chars("Unknown Vendor")

\* vendor is not None and vendor != "Unknown Vendor" and len(vendor) > 3
VendorCounts(vendor) ==
    vendor.some /\ vendor.val # Chars("Unknown Vendor") /\ Len(vendor.val) > 3

\* the score is kept in hundredths: 0.4, 0.3 and 0.3 are 40, 30 and 30, and
\* round(score * 100, 2) gives the same number (for each of the eight sums
\* the float result is the exact one)
calculate_confidence(amt, date, vendor) ==
    LET s0 == 0
        s1 == IF amt.some THEN s0 + 40 ELSE s0
        s2 == IF date.some THEN s1 + 30 ELSE s1
        s3 == IF VendorCounts(vendor) THEN s2 + 30 ELSE s2
    IN  Dec(s3, 0)

\* What a call does: it returns a value, or raises HTTPException(status_code).
Returned(v) == [raised |-> FALSE, value |-> v]
Raised(code) == [raised |-> TRUE, status_code |-> code]

\* Image.open and pytesseract.image_to_string give the text of a readable
\* image; on one they cannot read they raise, and the except clause raises
\* HTTPException(500) in turn
extract_text_from_image(file) ==
    IF file.readable THEN Returned(file.ocr_text) ELSE Raised(500)

\* text += page_text + "\n" for the pages whose text is not empty
RECURSIVE JoinPages(_)
JoinPages(pages) ==
    IF pages = <<>> THEN <<>>
    ELSE (IF Head(pages) # <<>> THEN Head(pages) \o <<"\n">> ELSE <<>>) \o JoinPages(Tail(pages))

\* pdfplumber gives the pages of a readable PDF; on one it cannot read it
\* raises, and the except clause raises HTTPException(500) in turn
extract_text_from_pdf(file) ==
    IF file.readable THEN Returned(JoinPages(file.pages)) ELSE Raised(500)

\* the record process_receipt returns after the three recognizers
ResultRecord(t, amt, date, vendor) ==
    [raw_text |-> t,
     extracted_data |-> [amount |-> amt, date |-> date, vendor |-> vendor, currency |-> "INR"],
     processing_status |-> "completed",
     confidence_score |-> calculate_confidence(amt, date, vendor)]

\* "amount = cls.parse_amount(text)" to the return of the record
CompletedResult(t) ==
    ResultRecord(t, parse_amount(t), receipt_parse_date(t), Some(parse_vendor(t)))

\* the record of the "except Exception" clause of process_receipt.  The two
\* extractors raise HTTPException only and the recognizers raise nothing on a
\* str, so the clause is entered on no input.
FailedResult ==
    [raw_text |-> <<>>,
     extracted_data |-> [amount |-> None, date |-> None, vendor |-> None, currency |-> "INR"],
     processing_status |-> "failed",
     error |-> "error",
     confidence_score |-> DecZero]

\* "if content_type.startswith('image/')" to the else branch
ExtractText(file) ==
    IF StartsWith(file.content_type, Chars("image/")) THEN extract_text_from_image(file)
    ELSE IF file.content_type = Chars("application/pdf") THEN extract_text_from_pdf(file)
    ELSE Raised(400)

\* what follows the extraction: "except HTTPException: raise" lets what the
\* extractor raised leave process_receipt
AfterExtraction(extracted) ==
    IF extracted.raised THEN extracted ELSE Returned(CompletedResult(extracted.value))

process_receipt(file) == AfterExtraction(ExtractText(file))

(***************************************************************************)
(* Table Column Mapper and Transaction Reconstructor:                      *)
(* PDFParser.process_table_data.  A table is a sequence of rows, a row a   *)
(* sequence of cells, a cell the string str(cell).  Column indices are     *)
(* Python's: 0 is the first cell and -1 means "not found".                 *)
(***************************************************************************)
\* row[i] as Python reads it (a negative index counts from the end)
Cell(row, i) == IF i < 0 THEN row[Len(row) + 1 + i] ELSE row[i + 1]

NoColumns ==
    [date |-> -1, desc |-> -1, credit |-> -1, debit |-> -1, amount |-> -1, balance |-> -1]

\* one pass of "for i, h in enumerate(header)": the if/elif chain on header cell i
MapColumn(idx, i, h) ==
    LET h_lower == Lower(h)
    IN  IF ContainsAny(h_lower, {Chars("date"), Chars("trans date")})
        THEN [idx EXCEPT !.date = i]
        ELSE IF ContainsAny(h_lower, {Chars("description"), Chars("particulars"), Chars("details")})
        THEN [idx EXCEPT !.desc = i]
        ELSE IF ContainsAny(h_lower, {Chars("credit"), Chars("deposit")})
        THEN [idx EXCEPT !.credit = i]
        ELSE IF ContainsAny(h_lower, {Chars("debit"), Chars("withdrawal")})
        THEN [idx EXCEPT !.debit = i]
        ELSE IF Contains(h_lower, Chars("amount")) /\ idx.amount = -1
        THEN [idx EXCEPT !.amount = i]
        ELSE IF ContainsAny(h_lower, {Chars("balance"), Chars("bal")})
        THEN [idx EXCEPT !.balance = i]
        ELSE idx

\* the loop over the header from cell i on
RECURSIVE MapColumns(_, _, _)
MapColumns(header, i, idx) ==
    IF i >= Len(header) THEN idx
    ELSE MapColumns(header, i + 1, MapColumn(idx, i, Cell(header, i)))

\* a table is skipped only for a missing date column
TableRejected_dateOnly(idx) == idx.date = -1

\* "If crucial columns are not found, skip this table"
TableRejected(idx) ==
    idx.date = -1 \/ idx.desc = -1
        \/ (idx.credit = -1 /\ idx.debit = -1 /\ idx.amount = -1)

MaxIndex(idx) ==
    CHOOSE n \in {idx.date, idx.desc, idx.credit, idx.debit, idx.amount, idx.balance} :
        \A k \in {idx.date, idx.desc, idx.credit, idx.debit, idx.amount, idx.balance} : k <= n

\* a row only as long as the largest index is skipped too
RowMalformed_oneMore(row, idx) == row = <<>> \/ Len(row) <= MaxIndex(idx) + 1

\* "Skip malformed rows"
RowMalformed(row, idx) == row = <<>> \/ Len(row) <= MaxIndex(idx)

\* ' '.join(str(cell).lower() for cell in row_data)
RECURSIVE JoinLower(_)
JoinLower(row) ==
    IF row = <<>> THEN <<>>
    ELSE IF Len(row) = 1 THEN Lower(row[1])
    ELSE Lower(row[1]) \o <<" ">> \o JoinLower(Tail(row))

credit_indicators ==
    {Chars("credit"), Chars("deposit"), Chars("sal"), Chars("interest"), Chars("refund"),
     Chars("cr"), Chars("recieved")}
debit_indicators ==
    {Chars("debit"), Chars("withdrawal"), Chars("payment"), Chars("charge"), Chars("fee"),
     Chars("dr"), Chars("paid")}

identify_transaction_type(row_data, amt) ==
    LET row_text == JoinLower(row_data)
    IN  IF ContainsAny(row_text, credit_indicators) THEN "credit"
        ELSE IF ContainsAny(row_text, debit_indicators) THEN "debit"
        ELSE IF amt.m >= 0 THEN "credit" ELSE "debit"

\* the chain with the debit column asked before the credit column
ResolveAmount_debitFirst(row, idx) ==
    IF idx.debit # -1 /\ clean_amount(Cell(row, idx.debit)).some
    THEN [amount_val |-> clean_amount(Cell(row, idx.debit)), transaction_type |-> "debit"]
    ELSE IF idx.credit # -1 /\ clean_amount(Cell(row, idx.credit)).some
    THEN [amount_val |-> clean_amount(Cell(row, idx.credit)), transaction_type |-> "credit"]
    ELSE IF idx.amount # -1 /\ clean_amount(Cell(row, idx.amount)).some
    THEN [amount_val |-> clean_amount(Cell(row, idx.amount)),
          transaction_type |->
              identify_transaction_type(row, clean_amount(Cell(row, idx.amount)).val)]
    ELSE [amount_val |-> None, transaction_type |-> "None"]

\* the if/elif chain that resolves amount_val and transaction_type of a row:
\* [amount_val : Optional, transaction_type]
ResolveAmount(row, idx) ==
    IF idx.credit # -1 /\ clean_amount(Cell(row, idx.credit)).some
    THEN [amount_val |-> clean_amount(Cell(row, idx.credit)), transaction_type |-> "credit"]
    ELSE IF idx.debit # -1 /\ clean_amount(Cell(row, idx.debit)).some
    THEN [amount_val |-> clean_amount(Cell(row, idx.debit)), transaction_type |-> "debit"]
    ELSE IF idx.amount # -1 /\ clean_amount(Cell(row, idx.amount)).some
    THEN [amount_val |-> clean_amount(Cell(row, idx.amount)),
          transaction_type |->
              identify_transaction_type(row, clean_amount(Cell(row, idx.amount)).val)]
    ELSE [amount_val |-> None, transaction_type |-> "None"]

\* the amount stored with its sign
StoredAmount_signed(amount_val) == amount_val

\* amount=abs(amount_val)
StoredAmount(amount_val) == DecAbs(amount_val)

\* the body of "for row in table_data[1:]": the transactions one row appends
ProcessRow(row, idx) ==
    IF RowMalformed(row, idx) THEN <<>>
    ELSE
      LET date_str_ == Strip(Cell(row, idx.date))
          description_str == Strip(Cell(row, idx.desc))
          parsed == parse_date(date_str_)
          res == ResolveAmount(row, idx)
          balance_val == IF idx.balance # -1 THEN clean_amount(Strip(Cell(row, idx.balance)))
                         ELSE None
      IN  IF ~parsed.some THEN <<>>
          ELSE IF ~res.amount_val.some THEN <<>>
          ELSE IF res.amount_val.val = DecZero THEN <<>>
          ELSE <<[date |-> parsed.val,
                  description |-> description_str,
                  amount |-> StoredAmount(res.amount_val.val),
                  balance |-> balance_val,
                  transaction_type |-> res.transaction_type,
                  category |-> None]>>

RECURSIVE ProcessRows(_, _)
ProcessRows(rows, idx) ==
    IF rows = <<>> THEN <<>> ELSE ProcessRow(Head(rows), idx) \o ProcessRows(Tail(rows), idx)

\* the body of "for table_data in tables": the transactions one table appends
ProcessTable(table_data) ==
    LET header == IF table_data # <<>> THEN table_data[1] ELSE <<>>
        idx == MapColumns(header, 0, NoColumns)
    IN  IF TableRejected(idx) THEN <<>> ELSE ProcessRows(Tail(table_data), idx)

RECURSIVE process_table_data(_)
process_table_data(tables) ==
    IF tables = <<>> THEN <<>>
    ELSE ProcessTable(Head(tables)) \o process_table_data(Tail(tables))

(***************************************************************************)
(* Summary Aggregator: PDFParser.calculate_summary                         *)
(***************************************************************************)
\* the sum without its filter on the type
RECURSIVE SumAmounts_unfiltered(_, _)
SumAmounts_unfiltered(transactions, type) ==
    IF transactions = <<>> THEN DecZero
    ELSE DecAdd(Head(transactions).amount, SumAmounts_unfiltered(Tail(transactions), type))

\* sum(t.amount for t in transactions if t.transaction_type == type)
RECURSIVE SumAmounts(_, _)
SumAmounts(transactions, type) ==
    IF transactions = <<>> THEN DecZero
    ELSE IF Head(transactions).transaction_type = type
         THEN DecAdd(Head(transactions).amount, SumAmounts(Tail(transactions), type))
         ELSE SumAmounts(Tail(transactions), type)

\* round(x, 2) for x >= 0: the values it can return.  x is held as a binary
\* float, so a decimal value that lies exactly half way between two
\* hundredths is stored a little above or a little below it and may round
\* either way (round(1.005, 2) is 1.0, round(0.125, 2) is 0.12).
Round2(x) ==
    IF x.e <= 2 THEN {x}
    ELSE LET k == Pow10(x.e - 2)
             lo == x.m \div k
             rem == x.m % k
         IN  IF 2 * rem < k THEN {Dec(lo, 2)}
             ELSE IF 2 * rem > k THEN {Dec(lo + 1, 2)}
             ELSE {Dec(lo, 2), Dec(lo + 1, 2)}

\* the summaries calculate_summary can return
calculate_summary(transactions, account_info) ==
    {[total_credits |-> tc,
      total_debits |-> td,
      transaction_count |-> Len(transactions),
      opening_balance |-> account_info.opening_balance,
      closing_balance |-> account_info.closing_balance] :
        tc \in Round2(SumAmounts(transactions, "credit")),
        td \in Round2(SumAmounts(transactions, "debit"))}

(***************************************************************************)
(* Renderings of a decimal value in the normalizer's vocabulary            *)
(***************************************************************************)
\* digits with a comma before every group of three counted from the right
RECURSIVE Group3(_)
Group3(ds) ==
    IF Len(ds) <= 3 THEN ds
    ELSE Group3(SubSeq(ds, 1, Len(ds) - 3)) \o <<",">> \o SubSeq(ds, Len(ds) - 2, Len(ds))

\* v = [neg, int, frac]: sign, integer part, fraction digits as written
ValueOf(v) ==
    LET mag == Dec(v.int * Pow10(Len(v.frac)) + DigitsValue(v.frac), Len(v.frac))
    IN  IF v.neg THEN DecNeg(mag) ELSE mag

\* st = [glyph, inner, thousands, parens]
Format(v, st) ==
    LET ds == IF st.thousands THEN Group3(IntDigits(v.int)) ELSE IntDigits(v.int)
        num == IF v.frac = <<>> THEN ds ELSE ds \o <<".">> \o v.frac
        open == IF ~v.neg THEN <<>> ELSE IF st.parens THEN <<"(">> ELSE <<"-">>
        close == IF v.neg /\ st.parens THEN <<")">> ELSE <<>>
    IN  IF st.inner THEN open \o st.glyph \o num \o close
        ELSE st.glyph \o open \o num \o close

IntParts == {0, 7, 45, 999, 1000, 1234, 50000, 1234567}
FracParts == {<<>>, Chars("5"), Chars("00"), Chars("05"), Chars("56"), Chars("005")}
AmountValues == [neg : BOOLEAN, int : IntParts, frac : FracParts]
AmountStyles ==
    [glyph : {<<>>, <<"$">>, <<"₹">>}, inner : BOOLEAN, thousands : BOOLEAN, parens : BOOLEAN]
NoStyle == [glyph |-> <<>>, inner |-> FALSE, thousands |-> FALSE, parens |-> FALSE]

\* strings that are no rendering of a value
RawAmountStrings ==
    {Chars(""), Chars("   "), Chars("N/A"), Chars("abc"), Chars("-"), Chars("()"),
     Chars("$"), Chars("None"), Chars("."), Chars("1.2.3"), Chars("12 Cr"), Chars("5-")}

HasDigit(s) == \E i \in DOMAIN s : IsDigit(s[i])

AmountIdle == amount_str = <<>> /\ amount = None /\ amt_value = None /\ amt_style = NoStyle
NoResponse == [status |-> 0]
NoPdf == [plumber |-> [ok |-> FALSE, tables |-> <<>>], camelot |-> [ok |-> FALSE, tables |-> <<>>]]
PdfIdle == pdf = NoPdf /\ text = <<>> /\ all_raw_tables = <<>> /\ table_transactions = <<>>
DateIdle == date_value = None /\ date_fmt = 0 /\ date_str = <<>> /\ parsed_date = None
NoFile ==
    [filename |-> 0, content_type |-> <<>>, size |-> 0, readable |-> FALSE,
     ocr_text |-> <<>>, pages |-> <<>>]
ReceiptIdle == request = NoFile /\ files = <<>> /\ results = <<>> /\ next_file = 0
NoFields == [amount |-> None, date |-> None, vendor |-> None]
ScoreIdle == fields = NoFields /\ confidence_score = DecZero

InitAmount ==
    /\ DateIdle /\ PdfIdle /\ ReceiptIdle /\ ScoreIdle /\ response = NoResponse
    /\ amount = None
    /\ \/ /\ pc = "start"
          /\ amt_value \in {Some(v) : v \in AmountValues}
          /\ amt_style \in AmountStyles
          /\ amount_str = <<>>
       \/ /\ pc = "formatted"
          /\ amt_value = None
          /\ amt_style = NoStyle
          /\ amount_str \in RawAmountStrings

FormatAmount ==
    /\ pc = "start"
    /\ amount_str' = Format(amt_value.val, amt_style)
    /\ pc' = "formatted"
    /\ UNCHANGED <<amount, amt_value, amt_style, dateVars, pdfVars, receiptVars, scoreVars, response>>

CleanAmount ==
    /\ pc = "formatted"
    /\ amount' = clean_amount(amount_str)
    /\ pc' = "cleaned"
    /\ UNCHANGED <<amount_str, amt_value, amt_style, dateVars, pdfVars, receiptVars, scoreVars, response>>

NextAmount == FormatAmount \/ CleanAmount

SpecAmount == InitAmount /\ [][NextAmount]_vars

\* C8: clean_amount applied to any rendering of a value v (optional currency
\* glyph, thousands separators, negative by parentheses or by a leading minus)
\* returns exactly v with its sign, and a string with no digit gives no value.
C8_AmountRoundTrip ==
    pc = "cleaned" =>
        /\ amt_value.some => amount = Some(ValueOf(amt_value.val))
        /\ ~HasDigit(amount_str) => amount = None

C8_Witness ==
    /\ pc = "cleaned"
    /\ amt_value.some
    /\ amount_str = Chars("(1,234.56)")
    /\ amount = Some(Dec(0 - 123456, 2))

(***************************************************************************)
(* The Date Normalizer applied to renderings of calendar dates             *)
(***************************************************************************)
CalendarDates ==
    {dt \in [y : MinYear..(CurrentYear + 1), m : 1..12, d : 1..31] :
        dt.d <= DaysInMonth(dt.y, dt.m)}

\* strings that are no rendering of a date of the window
RawDateStrings ==
    {Chars("03/04/2023"), Chars("N/A"), Chars("31/12/1999"), Chars("12/31/99"),
     Chars("5/6/2023"), Chars(" 2023-05-12 "), Chars("13/13/2023"), Chars("29/02/2023"),
     Chars("12 JUNE 2023"), Chars("2023/05/35"), Chars("01/02/2030"), Chars("12/05/23")}

InitDate ==
    /\ AmountIdle /\ PdfIdle /\ ReceiptIdle /\ ScoreIdle /\ response = NoResponse
    /\ parsed_date = None
    /\ \/ /\ pc = "start"
          /\ date_value \in {Some(dt) : dt \in CalendarDates}
          /\ date_fmt \in 1..Len(date_formats)
          /\ date_str = <<>>
       \/ /\ pc = "rendered"
          /\ date_value = None
          /\ date_fmt = 0
          /\ date_str \in RawDateStrings

RenderDate ==
    /\ pc = "start"
    /\ date_str' = strftime(date_value.val, date_formats[date_fmt])
    /\ pc' = "rendered"
    /\ UNCHANGED <<date_value, date_fmt, parsed_date, amountVars, pdfVars, receiptVars, scoreVars, response>>

ParseDate ==
    /\ pc = "rendered"
    /\ parsed_date' = parse_date(date_str)
    /\ pc' = "parsed"
    /\ UNCHANGED <<date_value, date_fmt, date_str, amountVars, pdfVars, receiptVars, scoreVars, response>>

NextDate == RenderDate \/ ParseDate

SpecDate == InitDate /\ [][NextDate]_vars

\* C9: for every calendar date d with year in [2000, current_year + 1] and
\* every format f of the normalizer's list, parse_date of d rendered in f
\* returns d as YYYY-MM-DD.
C9_DateRoundTrip ==
    (pc = "parsed" /\ date_value.some) =>
        parsed_date = Some(Pad(date_value.val.y, 4) \o <<"-">> \o Pad(date_value.val.m, 2)
                           \o <<"-">> \o Pad(date_value.val.d, 2))

C9_Witness ==
    /\ pc = "parsed"
    /\ date_value = Some([y |-> 2023, m |-> 5, d |-> 12])
    /\ date_str = Chars("05/12/23")
    /\ parsed_date = Some(Chars("2023-05-12"))

(***************************************************************************)
(* Statement parsing: PDFParser.parse_pdf behind /parse-pdf                *)
(***************************************************************************)
\* extract_text_pypdf2: the module never imports PyPDF2, so PyPDF2.PdfReader
\* raises NameError, "except Exception" absorbs it and "" is returned for
\* every document
extract_text_pypdf2 == <<>>

\* extract_account_info: every pattern of common_patterns holds a literal
\* anchor, so on the empty text, the only text parse_pdf gets, no field is found
extract_account_info(t) ==
    [account_number |-> None, account_holder |-> None, statement_period |-> None,
     opening_balance |-> None, closing_balance |-> None]

\* extract_tables_pdfplumber: the tables gathered before any exception; an
\* exception is logged and not raised
extract_tables_pdfplumber(outcome) == outcome.tables

\* extract_tables_camelot: tables are appended only once both read_pdf calls
\* returned; an exception is logged and not raised
extract_tables_camelot(outcome) == IF outcome.ok THEN outcome.tables ELSE <<>>

\* the ParsedData records parse_pdf can return for the tables it gathered
parse_pdf(t, tables) ==
    LET account_info == extract_account_info(t)
        transactions == process_table_data(tables)
    IN  {[account_number |-> account_info.account_number,
          account_holder |-> account_info.account_holder,
          statement_period |-> account_info.statement_period,
          opening_balance |-> summary.opening_balance,
          closing_balance |-> summary.closing_balance,
          transactions |-> transactions,
          total_credits |-> summary.total_credits,
          total_debits |-> summary.total_debits,
          transaction_count |-> summary.transaction_count] :
            summary \in calculate_summary(transactions, account_info)}

\* a row of cells from a row of TLA+ strings
StrRow(r) == [i \in 1..Len(r) |-> Chars(r[i])]
StrTable(t) == [i \in 1..Len(t) |-> StrRow(t[i])]

\* statement layouts: a header row and data rows
TableTemplates ==
    {StrTable(<<
        <<"Date", "Description", "Credit", "Debit", "Balance">>,
        <<"01/06/2023", "Salary Credit", "50000.00", "", "150000.00">>,
        <<"N/A", "Carried forward", "10.00", "", "5.00">>,
        <<"02/06/2023", "ATM Withdrawal", "", "(1,234.56)", "148,765.44">>,
        <<"03/06/2023", "Nil entry", "0.00", "25.00", "">> >>),
     StrTable(<<
        <<"Txn Date", "Particulars", "Amount">>,
        <<"05/06/2023", "Cash received", "-20.00">>,
        <<"06/06/2023", "Card payment", "30.005">>,
        <<"07/06/2023">>,
        <<"08/06/2023", "Transfer", "$12.50">> >>),
     StrTable(<<
        <<"Item", "Qty", "Price">>,
        <<"01/06/2023", "Pen", "10.00">> >>),
     StrTable(<< <<"Sr No", "Cheque No", "Remarks">> >>),
     StrTable(<<
        <<"Date", "Description", "Credit", "Debit", "Amount">>,
        <<"09/06/2023", "Adjustment", "", "", "75.00">>,
        <<"10/06/2023", "Refund", "-7.125", "", "1.00">> >>),
     StrTable(<<
        <<"Date", "Description", "Value Date", "Credit">>,
        <<"11/06/2023", "Interest", "12/06/2023", "3.50">> >>),
     StrTable(<<
        <<"Description", "Amount">>,
        <<"Opening", "100.00">> >>),
     StrTable(<<
        <<"Date", "Withdrawal", "Deposit">>,
        <<"13/06/2023", "40.00", "">> >>),
     StrTable(<<
        <<"Date", "Details", "Bal">>,
        <<"14/06/2023", "Fee", "60.00">> >>)}

\* the tables a collaborator may find: an empty table, or a template cut
\* after any of its data rows (a template of a header alone is kept whole)
TablePool ==
    {<<>>} \cup UNION {{SubSeq(t, 1, n) : n \in {k \in 1..Len(t) : k > 1 \/ Len(t) = 1}} :
                          t \in TableTemplates}

MaxTables == 2
Documents == UNION {[1..n -> TablePool] : n \in 0..MaxTables}

\* what camelot finds when it does not fail
CamelotDocuments ==
    {<<>>,
     <<StrTable(<< <<"Date", "Narration Details", "Debit">>,
                   <<"15/06/2023", "Bank charge", "-2.50">> >>)>>}

\* pdfplumber returns its tables, or fails: at once, or after a first table
PlumberOutcomes ==
    [ok : {TRUE}, tables : Documents]
        \cup [ok : {FALSE}, tables : {d \in Documents : Len(d) <= 1}]
\* camelot returns its tables, or fails
CamelotOutcomes ==
    [ok : {TRUE}, tables : CamelotDocuments] \cup {[ok |-> FALSE, tables |-> <<>>]}

InitStatement ==
    /\ AmountIdle /\ DateIdle /\ ReceiptIdle /\ ScoreIdle
    /\ pc = "start"
    /\ pdf \in [plumber : PlumberOutcomes, camelot : CamelotOutcomes]
    /\ text = <<>>
    /\ all_raw_tables = <<>>
    /\ table_transactions = <<>>
    /\ response = NoResponse

\* POST /parse-pdf with a .pdf file name: parse_pdf from its first statement to
\* its return.  No statement of it raises on these inputs, so its two except
\* clauses are never entered.
ParsePdf ==
    /\ pc = "start"
    /\ text' = extract_text_pypdf2
    /\ all_raw_tables' =
           extract_tables_pdfplumber(pdf.plumber) \o extract_tables_camelot(pdf.camelot)
    /\ \E parsed_data \in parse_pdf(text', all_raw_tables') :
           response' = [status |-> 200, body |-> parsed_data]
    /\ pc' = "done"
    /\ UNCHANGED <<pdf, table_transactions, amountVars, dateVars, receiptVars, scoreVars>>

NextStatement == ParsePdf

SpecStatement == InitStatement /\ [][NextStatement]_vars
(***************************************************************************)
(* Claims about statement parsing                                          *)
(***************************************************************************)
\* the text collaborator fails on every document (see extract_text_pypdf2)
AllCollaboratorsFailed == ~pdf.plumber.ok /\ ~pdf.camelot.ok

Transactions == response.body.transactions

\* C1: if the PDF-text collaborator and both PDF-table collaborators all fail
\* on the document, the request ends in an error outcome, never in a
\* successful ParsedStatement.
C1_TotalFailureIsError ==
    (pc = "done" /\ AllCollaboratorsFailed) => response.status >= 400

\* the cells of the tables handed to process_table_data
AllCells ==
    UNION {UNION {Range(all_raw_tables[t][r]) : r \in DOMAIN all_raw_tables[t]} :
               t \in DOMAIN all_raw_tables}

\* C3: every emitted Transaction has an amount strictly greater than 0 that is
\* the absolute value of the value of a cell of the input, and its
\* transaction_type is 'credit' or 'debit'.
C3_AmountPositive ==
    pc = "done" =>
        \A i \in DOMAIN Transactions :
            /\ Transactions[i].amount.m > 0
            /\ Transactions[i].transaction_type \in {"credit", "debit"}
            /\ \E c \in AllCells :
                   /\ clean_amount(c).some
                   /\ Transactions[i].amount \in {clean_amount(c).val, DecNeg(clean_amount(c).val)}

C3_Witness ==
    /\ pc = "done"
    /\ Chars("(1,234.56)") \in AllCells
    /\ \E i \in DOMAIN Transactions :
           /\ Transactions[i].amount = Dec(123456, 2)
           /\ Transactions[i].transaction_type = "debit"

\* the sum of the amounts of the transactions of a type, position by position
RECURSIVE SumUpTo(_, _, _)
SumUpTo(txs, n, types) ==
    IF n = 0 THEN DecZero
    ELSE IF txs[n].transaction_type \in types
         THEN DecAdd(SumUpTo(txs, n - 1, types), txs[n].amount)
         ELSE SumUpTo(txs, n - 1, types)
CreditSum == SumUpTo(Transactions, Len(Transactions), {"credit"})
DebitSum == SumUpTo(Transactions, Len(Transactions), {"debit"})
TotalSum == SumUpTo(Transactions, Len(Transactions), {"credit", "debit"})

\* x is a number of hundredths within half a hundredth of y, and is y when y
\* is a number of hundredths
RoundedFrom(x, y) ==
    /\ x.e <= 2
    /\ DecLeq(DecAdd(y, DecNeg(Dec(5, 3))), x)
    /\ DecLeq(x, DecAdd(y, Dec(5, 3)))
    /\ y.e <= 2 => x = y

\* C4 as stated: total_credits is the sum of the credit amounts, total_debits
\* the sum of the debit amounts, their sum the sum of all amounts, and
\* transaction_count the number of transactions, also for amounts with more
\* than two decimal places.
C4_TotalsExact ==
    pc = "done" =>
        /\ response.body.total_credits = CreditSum
        /\ response.body.total_debits = DebitSum
        /\ DecAdd(response.body.total_credits, response.body.total_debits) = TotalSum
        /\ response.body.transaction_count = Len(Transactions)

\* C4 amended: total_credits is the sum of the credit amounts rounded to two
\* decimal places, total_debits the sum of the debit amounts rounded to two
\* decimal places (each equal to its sum when the sum has at most two decimal
\* places), and transaction_count is the number of transactions.
C4_TotalsRounded ==
    pc = "done" =>
        /\ RoundedFrom(response.body.total_credits, CreditSum)
        /\ RoundedFrom(response.body.total_debits, DebitSum)
        /\ (CreditSum.e <= 2 /\ DebitSum.e <= 2) =>
               DecAdd(response.body.total_credits, response.body.total_debits) = TotalSum
        /\ response.body.transaction_count = Len(Transactions)

C4_Witness ==
    /\ pc = "done"
    /\ Len(Transactions) >= 2
    /\ DebitSum.e = 3
    /\ response.body.total_debits # DebitSum
    /\ CreditSum.m > 0
    /\ response.body.total_credits = CreditSum

\* seq without its k-th element
RemoveAt(seq, k) == SubSeq(seq, 1, k - 1) \o SubSeq(seq, k + 1, Len(seq))

\* the header of the table lacks a date role, a description role, or all of
\* the credit, debit and generic-amount roles
LacksRoles(table_data) ==
    LET idx == MapColumns(IF table_data = <<>> THEN <<>> ELSE table_data[1], 0, NoColumns)
    IN  \/ idx.date = -1
        \/ idx.desc = -1
        \/ idx.credit = -1 /\ idx.debit = -1 /\ idx.amount = -1

\* C6: a table (an empty one too) whose header lacks a date role, a
\* description role, or all of the credit, debit and generic-amount roles
\* contributes no transaction and raises no error, and the transactions of the
\* document are those produced with that table taken out of the input.
C6_RejectedTableIsLocal ==
    pc = "done" =>
        /\ response.status = 200
        /\ \A k \in DOMAIN all_raw_tables :
               LacksRoles(all_raw_tables[k]) =>
                   /\ process_table_data(<<all_raw_tables[k]>>) = <<>>
                   /\ Transactions = process_table_data(RemoveAt(all_raw_tables, k))

C6_Witness ==
    /\ pc = "done"
    /\ Len(all_raw_tables) >= 2
    /\ LacksRoles(all_raw_tables[1])
    /\ Len(all_raw_tables[1]) >= 2
    /\ ~LacksRoles(all_raw_tables[2])
    /\ Len(Transactions) >= 1

(***************************************************************************)
(* The Confidence Scorer applied to the fields a receipt can give          *)
(***************************************************************************)
FieldAmounts == {None, Some(Dec(4567, 2)), Some(Dec(2023, 0)), Some(Dec(1, 2))}
FieldDates == {None, Some(Chars("2023-05-12")), Some(Chars("2000-01-01"))}
FieldVendors ==
    {None, Some(Chars("Unknown Vendor")), Some(<<>>), Some(Chars("abc")), Some(Chars("abcd")),
     Some(Chars("SuperMart Store"))}

InitConfidence ==
    /\ AmountIdle /\ DateIdle /\ PdfIdle /\ ReceiptIdle /\ response = NoResponse
    /\ pc = "start"
    /\ fields \in [amount : FieldAmounts, date : FieldDates, vendor : FieldVendors]
    /\ confidence_score = DecZero

CalculateConfidence ==
    /\ pc = "start"
    /\ confidence_score' = calculate_confidence(fields.amount, fields.date, fields.vendor)
    /\ pc' = "scored"
    /\ UNCHANGED <<fields, amountVars, dateVars, pdfVars, receiptVars, response>>

NextConfidence == CalculateConfidence

SpecConfidence == InitConfidence /\ [][NextConfidence]_vars

\* the weight of a field that is present
Weight(present, w) == IF present THEN w ELSE 0

\* C10: the score is 40 if the amount is present, plus 30 if the date is
\* present, plus 30 if the vendor is present, is not "Unknown Vendor" and is
\* longer than 3 characters; it is one of 0, 30, 40, 60, 70, 100.
C10_ConfidenceWeights ==
    pc = "scored" =>
        /\ confidence_score =
               Dec(Weight(fields.amount # None, 40) + Weight(fields.date # None, 30)
                   + Weight(/\ fields.vendor # None
                            /\ fields.vendor # Some(Chars("Unknown Vendor"))
                            /\ Len(fields.vendor.val) > 3, 30), 0)
        /\ confidence_score \in {Dec(n, 0) : n \in {0, 30, 40, 60, 70, 100}}

C10_Witness ==
    /\ pc = "scored"
    /\ fields.amount # None
    /\ fields.date # None
    /\ fields.vendor = Some(Chars("abc"))
    /\ confidence_score = Dec(70, 0)

(***************************************************************************)
(* Receipts: process_receipt_endpoint behind /ocr/receipt                  *)
(***************************************************************************)
allowed_types ==
    {Chars("image/jpeg"), Chars("image/png"), Chars("image/jpg"), Chars("application/pdf"),
     Chars("image/webp"), Chars("image/heic"), Chars("image/heif")}

\* 10 * 1024 * 1024
MaxFileSize == 10 * 1024 * 1024

ScenarioText == Chars("TOTAL: $45.67  Date: 12/05/2023  SuperMart Store")

\* what OCR reads on a readable image
ReceiptTexts ==
    {ScenarioText, <<>>, Chars("SuperMart Store\nTOTAL: $45.67\nDate: 12/05/2023"),
     Chars("Cafe Uno\nTotal 5.00"), Chars("Rs. 1,234.50 paid 3 May 2021")}

\* the page texts of a readable PDF
ReceiptPages ==
    {<<>>, <<ScenarioText>>, <<Chars("Cafe Uno"), <<>>, Chars("Total 5.00")>>}

ContentTypes == allowed_types \cup {Chars("text/plain"), Chars("image/gif")}
FileSizes == {2048, MaxFileSize, MaxFileSize + 1}

\* an upload: an image, a PDF, or a file of another type
Uploads ==
    {f \in [filename : {1}, content_type : ContentTypes, size : FileSizes,
            readable : BOOLEAN, ocr_text : ReceiptTexts, pages : ReceiptPages] :
        /\ ~f.readable => f.ocr_text = <<>> /\ f.pages = <<>>
        /\ f.content_type = Chars("application/pdf") => f.ocr_text = <<>>
        /\ f.content_type # Chars("application/pdf") => f.pages = <<>>}

InitReceipt ==
    /\ AmountIdle /\ DateIdle /\ PdfIdle /\ ScoreIdle
    /\ pc = "start"
    /\ request \in Uploads
    /\ files = <<>> /\ results = <<>> /\ next_file = 0
    /\ response = NoResponse

\* the response to what process_receipt did: the JSONResponse, or the
\* HTTPException raised again
ReceiptResponse(file, result) ==
    IF result.raised THEN [status |-> result.status_code]
    ELSE [status |-> 200,
          body |-> [success |-> TRUE, filename |-> file.filename, data |-> result.value]]

\* POST /ocr/receipt
process_receipt_endpoint(file) ==
    IF file.content_type \notin allowed_types THEN [status |-> 400]
    ELSE IF file.size > MaxFileSize THEN [status |-> 400]
    ELSE ReceiptResponse(file, process_receipt(file))

ProcessReceipt ==
    /\ pc = "start"
    /\ response' = process_receipt_endpoint(request)
    /\ pc' = "done"
    /\ UNCHANGED <<receiptVars, amountVars, dateVars, pdfVars, scoreVars>>

NextReceipt == ProcessReceipt

SpecReceipt == InitReceipt /\ [][NextReceipt]_vars

PassesValidation(file) == file.content_type \in allowed_types /\ file.size <= MaxFileSize

\* C2: for a request of an allowed type and of at most 10 MB, a failure of the
\* text extraction is answered with HTTP 200 and a result record with
\* processing_status "failed" and confidence_score 0.
C2_ExtractionFailureIsFailedRecord ==
    (pc = "done" /\ PassesValidation(request) /\ ~request.readable) =>
        /\ response.status = 200
        /\ response.body.data.processing_status = "failed"
        /\ response.body.data.confidence_score = DecZero

\* the text the recognizers are given is the text of the scenario
ScenarioRequest ==
    /\ PassesValidation(request)
    /\ request.readable
    /\ request.ocr_text = ScenarioText

\* C5: for the text "TOTAL: $45.67  Date: 12/05/2023  SuperMart Store" the
\* pipeline gives amount 45.67, a vendor containing "SuperMart", date
\* 2023-05-12 and confidence 100.
C5_ScenarioFields ==
    (pc = "done" /\ ScenarioRequest) =>
        /\ response.status = 200
        /\ response.body.data.extracted_data.amount = Some(Dec(4567, 2))
        /\ Contains(response.body.data.extracted_data.vendor.val, Chars("SuperMart"))
        /\ response.body.data.extracted_data.date = Some(Chars("2023-05-12"))
        /\ response.body.data.confidence_score = Dec(100, 0)

(***************************************************************************)
(* Batches: process_batch_receipts_endpoint behind /ocr/batch              *)
(***************************************************************************)
\* "if len(files) > 10"
MaxBatchFiles == 10

\* the batches go up to this many files over the limit
MaxOver == 1
\* the kinds of the files of a batch repeat with a period of at most this
MaxPeriod == 3

\* one file of each kind: of a type that is not allowed, over the size limit,
\* unreadable, and a readable receipt
FileKinds ==
    {[NoFile EXCEPT !.content_type = Chars("text/plain"), !.size = 2048],
     [NoFile EXCEPT !.content_type = Chars("image/png"), !.size = MaxFileSize + 1,
                    !.readable = TRUE, !.ocr_text = Chars("Cafe Uno\nTotal 5.00")],
     [NoFile EXCEPT !.content_type = Chars("application/pdf"), !.size = 2048],
     [NoFile EXCEPT !.content_type = Chars("image/png"), !.size = 2048,
                    !.readable = TRUE, !.ocr_text = Chars("Cafe Uno\nTotal 5.00")]}

\* the batch of n files whose kinds are those of period, repeated; the file
\* at position i is named i
Batch(period, n) ==
    [i \in 1..n |-> [period[((i - 1) % Len(period)) + 1] EXCEPT !.filename = i]]

Batches ==
    {Batch(period, n) : period \in UNION {[1..k -> FileKinds] : k \in 1..MaxPeriod},
                        n \in 0..(MaxBatchFiles + MaxOver)}

InitBatch ==
    /\ AmountIdle /\ DateIdle /\ PdfIdle /\ ScoreIdle
    /\ pc = "start"
    /\ request = NoFile
    /\ files \in Batches
    /\ results = <<>>
    /\ next_file = 0
    /\ response = NoResponse

\* "if len(files) > 10" holds at the limit too
TooManyFiles_atLimit(fs) == Len(fs) >= MaxBatchFiles

\* "if len(files) > 10"
TooManyFiles(fs) == Len(fs) > MaxBatchFiles

\* the entry for what process_receipt did; "except Exception" catches the
\* HTTPException it raises
ProcessedEntry(file, result) ==
    IF result.raised
    THEN [filename |-> file.filename, success |-> FALSE, error |-> "HTTPException"]
    ELSE [filename |-> file.filename, success |-> TRUE, data |-> result.value]

\* the entry one pass of the loop appends for a file
BatchEntry(file) ==
    IF file.content_type \notin allowed_types
    THEN [filename |-> file.filename, success |-> FALSE, error |-> "Invalid file type"]
    ELSE IF file.size > MaxFileSize
    THEN [filename |-> file.filename, success |-> FALSE,
          error |-> "File size exceeds 10MB limit"]
    ELSE ProcessedEntry(file, process_receipt(file))

\* sum(1 for r in results if r["success"])
Successful(rs) == Cardinality({i \in DOMAIN rs : rs[i].success})

\* the batch is over the limit: HTTPException(400) before the loop
BatchReject ==
    /\ pc = "start"
    /\ TooManyFiles(files)
    /\ response' = [status |-> 400]
    /\ pc' = "done"
    /\ UNCHANGED <<receiptVars, amountVars, dateVars, pdfVars, scoreVars>>

\* "results = []" and the start of the loop
BatchBegin ==
    /\ pc = "start"
    /\ ~TooManyFiles(files)
    /\ results' = <<>>
    /\ next_file' = 1
    /\ pc' = "loop"
    /\ UNCHANGED <<request, files, response, amountVars, dateVars, pdfVars, scoreVars>>

\* one pass of "for file in files"
BatchFile ==
    /\ pc = "loop"
    /\ next_file <= Len(files)
    /\ results' = Append(results, BatchEntry(files[next_file]))
    /\ next_file' = next_file + 1
    /\ UNCHANGED <<pc, request, files, response, amountVars, dateVars, pdfVars, scoreVars>>

\* the loop is over: the summary and the JSONResponse
BatchFinish ==
    /\ pc = "loop"
    /\ next_file > Len(files)
    /\ LET successful == Successful(results)
       IN  response' =
               [status |-> 200,
                body |-> [success |-> TRUE, results |-> results,
                          summary |-> [total_files |-> Len(files),
                                       successful |-> successful,
                                       failed |-> Len(files) - successful]]]
    /\ pc' = "done"
    /\ UNCHANGED <<receiptVars, amountVars, dateVars, pdfVars, scoreVars>>

NextBatch == BatchReject \/ BatchBegin \/ BatchFile \/ BatchFinish

SpecBatch == InitBatch /\ [][NextBatch]_vars

\* the file is one that gives a successful entry
IsReceipt(file) == PassesValidation(file) /\ file.readable

\* the entries appended so far are those of the files visited so far, one per
\* file and in the order of the files
VisitedInOrder ==
    /\ pc = "loop" => Len(results) = next_file - 1
    /\ Len(results) <= Len(files)
    /\ \A i \in DOMAIN results :
           /\ results[i].filename = files[i].filename
           /\ results[i].success = IsReceipt(files[i])

\* a batch of at most 10 files ends with one entry per file and a summary
\* that adds up; a batch of more than 10 files ends with HTTP 400 and no
\* file processed
BatchOutcome ==
    /\ Len(files) > MaxBatchFiles => results = <<>> /\ pc # "loop"
    /\ (pc = "done" /\ Len(files) > MaxBatchFiles) => response.status = 400
    /\ (pc = "done" /\ Len(files) <= MaxBatchFiles) =>
           /\ response.status = 200
           /\ response.body.results = results
           /\ Len(results) = Len(files)
           /\ response.body.summary.total_files = Len(results)
           /\ response.body.summary.successful + response.body.summary.failed
                  = response.body.summary.total_files
           /\ response.body.summary.successful
                  = Cardinality({i \in DOMAIN files : IsReceipt(files[i])})

\* a step of the loop takes the next file of the input and appends its one
\* entry, whatever the entry says; the loop is left only with every file
\* visited
LoopStep ==
    pc = "loop" =>
        \/ /\ pc' = "loop"
           /\ next_file <= Len(files)
           /\ next_file' = next_file + 1
           /\ Len(results') = Len(results) + 1
           /\ SubSeq(results', 1, Len(results)) = results
           /\ results'[next_file].filename = files[next_file].filename
        \/ /\ pc' = "done"
           /\ next_file = Len(files) + 1
           /\ Len(results) = Len(files)
           /\ results' = results

\* C7: for every batch of at most 10 files and every pattern of per-file
\* outcomes the handler visits every file in input order, appends exactly one
\* entry per file in that order, does not stop at or skip a file because an
\* earlier one failed, and reports successful + failed = total_files = number
\* of entries; a batch of more than 10 files is rejected before any file is
\* processed.
C7_BatchProgress == [](VisitedInOrder /\ BatchOutcome) /\ [][LoopStep]_vars

C7_Witness ==
    /\ pc = "done"
    /\ Len(files) = MaxBatchFiles
    /\ ~IsReceipt(files[1])
    /\ ~files[2].readable /\ PassesValidation(files[2])
    /\ IsReceipt(files[3])
    /\ response.body.summary.successful >= 1
    /\ response.body.summary.failed >= 2
    /\ Len(response.body.results) = MaxBatchFiles

(***************************************************************************)
(* Specification SpecTable: process_table_data as a function of one table. *)
(* The table is any header of TableHeaders followed by up to MaxRows rows  *)
(* of TableRows, in any order and with repetitions.                        *)
(***************************************************************************)
MaxRows == 2

TableHeaders ==
    {StrRow(<<"Date", "Description", "Credit", "Debit", "Balance">>),
     StrRow(<<"Txn Date", "Particulars", "Amount">>),
     StrRow(<<"Date", "Description", "Credit", "Debit", "Amount">>),
     StrRow(<<"Date", "Description", "Value Date", "Credit">>),
     StrRow(<<"Item", "Qty", "Price">>)}

TableRows ==
    {StrRow(<<"01/06/2023", "Salary Credit", "50000.00", "", "150000.00">>),
     StrRow(<<"N/A", "Carried forward", "10.00", "", "5.00">>),
     StrRow(<<"02/06/2023", "ATM Withdrawal", "", "(1,234.56)", "">>),
     StrRow(<<"03/06/2023", "Nil entry", "0.00", "25.00", "7.00">>),
     StrRow(<<"05/06/2023", "Cash received", "-20.00">>),
     <<>>,
     StrRow(<<"09/06/2023", "Adjustment", "", "", "75.00">>),
     StrRow(<<"11/06/2023", "Interest", "12/06/2023", "3.50">>)}

RowLists == UNION {[1..n -> TableRows] : n \in 0..MaxRows}

InitTable ==
    /\ AmountIdle /\ DateIdle /\ ReceiptIdle /\ ScoreIdle
    /\ pc = "start"
    /\ pdf = NoPdf
    /\ text = <<>>
    /\ \E header \in TableHeaders, rows \in RowLists :
           all_raw_tables = <<(<<header>> \o rows)>>
    /\ table_transactions = <<>>
    /\ response = NoResponse

\* transactions = self.process_table_data(all_raw_tables)
ProcessTableData ==
    /\ pc = "start"
    /\ table_transactions' = process_table_data(all_raw_tables)
    /\ pc' = "done"
    /\ UNCHANGED <<pdf, text, all_raw_tables, amountVars, dateVars, receiptVars, scoreVars,
                   response>>

NextTable == ProcessTableData

SpecTable == InitTable /\ [][NextTable]_vars

\* the header and the data rows of the table that was processed
TableHeader == all_raw_tables[1][1]
DataRows == Tail(all_raw_tables[1])
Columns == MapColumns(TableHeader, 0, NoColumns)
MappedIndices ==
    {Columns.date, Columns.desc, Columns.credit, Columns.debit, Columns.amount,
     Columns.balance} \ {-1}
Accepted == ~TableRejected(Columns)

\* what the table made of the header and one data row alone gives
Alone(row) == process_table_data(<<(<<TableHeader, row>>)>>)

RECURSIVE RowByRow(_)
RowByRow(rows) == IF rows = <<>> THEN <<>> ELSE Alone(Head(rows)) \o RowByRow(Tail(rows))

\* the row holds every mapped column
HoldsColumns(row) == row # <<>> /\ \A i \in MappedIndices : i < Len(row)

\* the row is none of the rows that are dropped
RowKept(row) ==
    /\ HoldsColumns(row)
    /\ parse_date(Strip(Cell(row, Columns.date))).some
    /\ ResolveAmount(row, Columns).amount_val.some
    /\ ResolveAmount(row, Columns).amount_val.val # DecZero

\* C11: within an accepted table the rows dropped are exactly the rows that
\* are empty or too short for a mapped column, whose date cell does not
\* normalize, or whose resolved amount is absent or zero; every other row
\* gives exactly one transaction; the transactions are, in row order, what
\* each row gives alone; and a row that passes the length test holds every
\* mapped column.
C11_RowRejectionIsLocal ==
    (pc = "done" /\ Accepted) =>
        /\ table_transactions = RowByRow(DataRows)
        /\ \A k \in DOMAIN DataRows :
               /\ Len(Alone(DataRows[k])) = IF RowKept(DataRows[k]) THEN 1 ELSE 0
               /\ ~RowMalformed(DataRows[k], Columns) => HoldsColumns(DataRows[k])

C11_Witness ==
    /\ pc = "done" /\ Accepted
    /\ Len(DataRows) = 2
    /\ HoldsColumns(DataRows[1]) /\ ~RowKept(DataRows[1])
    /\ RowKept(DataRows[2]) /\ Len(DataRows[2]) = MaxIndex(Columns) + 1
    /\ table_transactions = Alone(DataRows[2])
    /\ Len(table_transactions) = 1

\* the cell of a role as clean_amount reads it: None when the role has no column
RoleAmount(row, col) == IF col = -1 THEN None ELSE clean_amount(Cell(row, col))

\* the amount and the type the precedence credit, debit, generic amount gives
\* ("any": the generic amount leaves the type to the row's text)
Precedence(row) ==
    LET credit == RoleAmount(row, Columns.credit)
        debit == RoleAmount(row, Columns.debit)
        generic == RoleAmount(row, Columns.amount)
    IN  IF credit.some THEN [amount_val |-> credit, type |-> {"credit"}]
        ELSE IF debit.some THEN [amount_val |-> debit, type |-> {"debit"}]
        ELSE [amount_val |-> generic, type |-> {"credit", "debit"}]

RowBalance(row) ==
    IF Columns.balance = -1 THEN None ELSE clean_amount(Strip(Cell(row, Columns.balance)))

ScenarioHeader == StrRow(<<"Date", "Description", "Credit", "Debit", "Balance">>)
ScenarioRow == StrRow(<<"01/06/2023", "Salary Credit", "50000.00", "", "150000.00">>)

\* C12: for every row of an accepted table that holds the mapped columns and
\* whose date normalizes, the amount is the credit cell's value with type
\* credit when that cell normalizes (zero included), else the debit cell's
\* value with type debit when that cell normalizes, else the generic amount
\* cell's value; the row gives a transaction exactly when that amount is
\* present and not zero, whatever the cells of lower precedence and the
\* balance cell hold, and the balance is the balance cell normalized on its
\* own.  The header [Date, Description, Credit, Debit, Balance] with the row
\* ["01/06/2023", "Salary Credit", "50000.00", "", "150000.00"] gives exactly
\* one transaction: 2023-06-01, 50000.00, credit, balance 150000.00.
C12_AmountPrecedence ==
    (pc = "done" /\ Accepted) =>
        /\ \A k \in DOMAIN DataRows :
               LET row == DataRows[k]
               IN  (HoldsColumns(row) /\ parse_date(Strip(Cell(row, Columns.date))).some) =>
                       IF Precedence(row).amount_val.some
                              /\ Precedence(row).amount_val.val # DecZero
                       THEN /\ Len(Alone(row)) = 1
                            /\ Alone(row)[1].amount = DecAbs(Precedence(row).amount_val.val)
                            /\ Alone(row)[1].transaction_type \in Precedence(row).type
                            /\ Alone(row)[1].balance = RowBalance(row)
                       ELSE Alone(row) = <<>>
        /\ (TableHeader = ScenarioHeader /\ DataRows = <<ScenarioRow>>) =>
               /\ Len(table_transactions) = 1
               /\ table_transactions[1].date = Chars("2023-06-01")
               /\ table_transactions[1].amount = Dec(5000000, 2)
               /\ table_transactions[1].transaction_type = "credit"
               /\ table_transactions[1].balance = Some(Dec(15000000, 2))

\* the scenario row, then a debit row with an empty balance cell
C12_Witness ==
    /\ pc = "done"
    /\ TableHeader = ScenarioHeader
    /\ Len(DataRows) = 2
    /\ DataRows[1] = ScenarioRow
    /\ HoldsColumns(DataRows[2])
    /\ ~RoleAmount(DataRows[2], Columns.credit).some
    /\ RoleAmount(DataRows[2], Columns.debit).some
    /\ ~RowBalance(DataRows[2]).some
    /\ Len(table_transactions) = 2
    /\ table_transactions[1].transaction_type = "credit"
    /\ table_transactions[2].transaction_type = "debit"
    /\ table_transactions[2].balance = None

Roles == {"date", "desc", "credit", "debit", "amount", "balance"}

\* the roles whose keywords header cell h matches, as the if/elif chain reads it
RolesOf(h) == {r \in Roles : MapColumn(NoColumns, 0, h)[r] = 0}

\* the leftmost column of the header that matches the role, -1 when none does
FirstColumn(role) ==
    LET matching == {i \in 0..(Len(TableHeader) - 1) : role \in RolesOf(Cell(TableHeader, i))}
    IN  IF matching = {} THEN -1
        ELSE CHOOSE i \in matching : \A j \in matching : i <= j

\* C13: for every header row each role is the first (leftmost) column whose
\* header matches the role's keywords, a later matching column never
\* replaces it; with the header ["Date", "Description", "Value Date",
\* "Credit"] the date role is column 0.
C13_FirstColumnWins ==
    pc = "done" =>
        /\ \A role \in Roles : Columns[role] = FirstColumn(role)
        /\ TableHeader = StrRow(<<"Date", "Description", "Value Date", "Credit">>)
               => Columns.date = 0

\* C14: a header cell containing "amount" gets the generic amount role only
\* if no column to its left has the credit or the debit role; for the header
\* [Date, Description, Credit, Debit, Amount] there is no generic amount
\* role, and a row whose credit and debit cells are both empty gives no
\* transaction whatever its Amount cell holds.
C14_GenericAmountGuard ==
    pc = "done" =>
        /\ Columns.amount # -1 =>
               \A j \in 0..(Columns.amount - 1) :
                   RolesOf(Cell(TableHeader, j)) \cap {"credit", "debit"} = {}
        /\ TableHeader = StrRow(<<"Date", "Description", "Credit", "Debit", "Amount">>) =>
               /\ Columns.amount = -1
               /\ \A k \in DOMAIN DataRows :
                      (Len(DataRows[k]) = 5 /\ Cell(DataRows[k], 2) = <<>>
                           /\ Cell(DataRows[k], 3) = <<>>)
                          => Alone(DataRows[k]) = <<>>

\* the keywords as they are listed for the classification
ListedCreditKeywords ==
    {Chars("credit"), Chars("deposit"), Chars("salary"), Chars("sal"), Chars("interest"),
     Chars("refund"), Chars("cr"), Chars("received")}
ListedDebitKeywords ==
    {Chars("debit"), Chars("withdrawal"), Chars("payment"), Chars("charge"), Chars("fee"),
     Chars("dr"), Chars("paid")}

ListedType(row, amt) ==
    IF ContainsAny(JoinLower(row), ListedCreditKeywords) THEN "credit"
    ELSE IF ContainsAny(JoinLower(row), ListedDebitKeywords) THEN "debit"
    ELSE IF amt.m >= 0 THEN "credit" ELSE "debit"

\* the row gives a transaction whose amount is the generic amount cell's
GenericAmountRow(row) ==
    /\ RowKept(row)
    /\ ~RoleAmount(row, Columns.credit).some
    /\ ~RoleAmount(row, Columns.debit).some

\* C15: a row whose amount comes from the generic amount column is credit
\* when its text contains a credit keyword (credit, deposit, salary/sal,
\* interest, refund, cr, received), debit when it contains a debit keyword
\* (debit, withdrawal, payment, charge, fee, dr, paid) and no credit keyword,
\* and takes its type from the sign of the amount only when it contains no
\* keyword; a row with "received" and no debit keyword is credit whatever
\* the sign of its amount.
C15_KeywordClassification ==
    (pc = "done" /\ Accepted) =>
        \A k \in DOMAIN DataRows :
            GenericAmountRow(DataRows[k]) =>
                Alone(DataRows[k])[1].transaction_type =
                    ListedType(DataRows[k], RoleAmount(DataRows[k], Columns.amount).val)

(***************************************************************************)
(* Specification SpecDateSample: PDFParser.parse_date and                  *)
(* ReceiptParser.parse_date on renderings of sample dates, some of them    *)
(* outside the year window, and on raw strings.                            *)
(***************************************************************************)
SampleDates ==
    {dt \in [y : {1999, 2000, 2012, 2023, CurrentYear + 1, CurrentYear + 2},
             m : {1, 2, 5, 12}, d : {1, 4, 12, 13, 29, 31}] :
        dt.d <= DaysInMonth(dt.y, dt.m)}

SampleStrings == RawDateStrings \cup {<<>>, Chars("  "), Chars("03/04/23")}

InitDateSample ==
    /\ AmountIdle /\ PdfIdle /\ ReceiptIdle /\ ScoreIdle /\ response = NoResponse
    /\ parsed_date = None
    /\ \/ /\ pc = "start"
          /\ date_value \in {Some(dt) : dt \in SampleDates}
          /\ date_fmt \in 1..Len(date_formats)
          /\ date_str = <<>>
       \/ /\ pc = "rendered"
          /\ date_value = None
          /\ date_fmt = 0
          /\ date_str \in SampleStrings

\* ReceiptParser.parse_date on a text that is the rendering and nothing else
ReceiptParseDate ==
    /\ pc = "rendered"
    /\ parsed_date' = receipt_parse_date(date_str)
    /\ pc' = "recognized"
    /\ UNCHANGED <<date_value, date_fmt, date_str, amountVars, pdfVars, receiptVars, scoreVars, response>>

NextDateSample == RenderDate \/ ParseDate \/ ReceiptParseDate

SpecDateSample == InitDateSample /\ [][NextDateSample]_vars

\* YYYY-MM-DD of a date
IsoDate(dt) == Pad(dt.y, 4) \o <<"-">> \o Pad(dt.m, 2) \o <<"-">> \o Pad(dt.d, 2)

\* the formats that parse s to a date with year in [2000, current_year + 1]
FormatsInWindow(s) ==
    {k \in 1..Len(date_formats) :
        /\ strptime(s, date_formats[k]).some
        /\ strptime(s, date_formats[k]).val.y >= MinYear
        /\ strptime(s, date_formats[k]).val.y <= CurrentYear + 1}

\* the formats that parse s to a date with year outside the window
FormatsOutOfWindow(s) ==
    {k \in 1..Len(date_formats) :
        strptime(s, date_formats[k]).some /\ k \notin FormatsInWindow(s)}

FirstOf(ks) == CHOOSE k \in ks : \A j \in ks : k <= j

\* s is YYYY-MM-DD with the year in the window
IsWindowIso(s) ==
    /\ Len(s) = 10
    /\ s[5] = "-" /\ s[8] = "-"
    /\ \A i \in {1, 2, 3, 4, 6, 7, 9, 10} : IsDigit(s[i])
    /\ DigitsValue(SubSeq(s, 1, 4)) >= MinYear
    /\ DigitsValue(SubSeq(s, 1, 4)) <= CurrentYear + 1

\* C16: parse_date returns the interpretation of the first format of its
\* list that parses the stripped string and gives a year in
\* [2000, current_year + 1]; a format that parses with a year outside the
\* window does not stop the search; the result is a function of the string,
\* every non-empty result is YYYY-MM-DD with the year in the window, and
\* "03/04/2023" gives 2023-04-03.
C16_FirstFormatInWindow ==
    pc = "parsed" =>
        /\ parsed_date =
               IF date_str = <<>> \/ FormatsInWindow(Strip(date_str)) = {} THEN None
               ELSE Some(IsoDate(strptime(Strip(date_str),
                            date_formats[FirstOf(FormatsInWindow(Strip(date_str)))]).val))
        /\ parsed_date.some => IsWindowIso(parsed_date.val)
        /\ date_str = Chars("03/04/2023") => parsed_date = Some(Chars("2023-04-03"))

\* a string one format parses with a year outside the window: the search goes
\* on through the later formats and ends without a date
C16_Witness ==
    /\ pc = "parsed"
    /\ date_value.some
    /\ FormatsOutOfWindow(date_str) # {}
    /\ FirstOf(FormatsOutOfWindow(date_str)) < Len(date_formats)
    /\ FormatsInWindow(date_str) = {}
    /\ parsed_date = None

\* C17: for every calendar date d with year in [2000, current_year + 1] and
\* every supported rendering of d, year-first ones included, a receipt text
\* that is this rendering makes ReceiptParser.parse_date return d; no pattern
\* captures a shorter substring of the rendering that normalizes to another
\* date.
C17_ReceiptDateKept ==
    (pc = "recognized" /\ date_value.some
         /\ date_value.val.y >= MinYear /\ date_value.val.y <= CurrentYear + 1) =>
        parsed_date = Some(IsoDate(date_value.val))
====
